---- MODULE Spec2Model ----
(***************************************************************************)
(* Model of FunctionMapper (src/FunctionMapper.h, src/FunctionMapper.cpp): *)
(* a fixed-capacity jump vector mapping function codes to handlers.        *)
(*                                                                         *)
(* A handler (a function pointer) is modelled by a small positive integer, *)
(* the null pointer by NULL = 0.  A FunctionMap is a record                *)
(* [functionCode, handler].  The object's fields are arraySize and         *)
(* functionMapArray; the remaining variables record the constructor's      *)
(* arguments and the most recent call with what it returned.               *)
(***************************************************************************)
EXTENDS Integers, Sequences, FiniteSets

\* ---- bounds of the model ------------------------------------------------
MaxCode == 1        \* addHandler is called with function codes 0..MaxCode
NumHandlers == 2    \* distinct non-null handler functions
MaxValue == 1       \* processValue is called with values 0..MaxValue
MaxList == 2        \* entries before the terminator of a supplied array
MaxSize == 5        \* largest size argument passed to the constructor
MaxAdds == 3        \* addHandler calls made on one object

\* ---- program constants ----------------------------------------------------
NULL == 0           \* the null handler pointer
DefaultSize == 10   \* capacity when neither array nor size is supplied
UCharRange == 256   \* unsigned char holds 0..255

\* ---- value domains --------------------------------------------------------
Handlers == 1..NumHandlers
UCharCodes == 0..MaxCode
\* unsigned int codes: the unsigned char ones and one that only fits the
\* wider type (it truncates to 1 when passed to a handler)
UIntCodes == UCharCodes \cup {UCharRange + 1}
Values == 0..MaxValue
NoArray == <<>>     \* the constructor's functionMapArray argument is 0

FunctionMap == [functionCode : UIntCodes, handler : Handlers \cup {NULL}]
Terminators == {m \in FunctionMap : m.handler = NULL /\ m.functionCode = 0}

\* Arrays a caller can pass: up to MaxList entries (an entry with a null
\* handler may occur anywhere) followed by the { 0, 0 } terminator.
ArgArrays ==
  UNION {{a \in [1..(n + 1) -> FunctionMap] : a[n + 1] \in Terminators}
         : n \in 0..MaxList}

\* What handler h returns for (functionCode, value); the handlers of the
\* header's example test the parity of value.
HandlerResult(h, functionCode, value) == ((value + h) % 2) = 1

\* arraySize, functionMapArray: the object's fields
\* argGiven, argArray, argSize: whether the constructor was passed an array,
\*   that array's entries before its first null handler, and the size passed
\* fmaSize: the constructor's local, the number of entries it copied
\* adds: addHandler calls made so far
\* last: the most recent call, its arguments and what it did
VARIABLES arraySize, functionMapArray, argGiven, argArray, argSize, fmaSize,
          adds, last
vars == <<arraySize, functionMapArray, argGiven, argArray, argSize, fmaSize,
          adds, last>>

NoCall == [h |-> NULL, functionCode |-> 0, value |-> 0]

\* ---- constructor ----------------------------------------------------------
\* while (functionMapArray[fmaSize].handler != 0) fmaSize++;
RECURSIVE MeasureArray(_, _)
MeasureArray(arr, n) ==
  IF arr[n + 1].handler # NULL THEN MeasureArray(arr, n + 1) ELSE n

CountOf(arr) == IF arr # NoArray THEN MeasureArray(arr, 0) ELSE 0

\* variant: the default of 10 replaces a size of 0 whether or not an array
\* is supplied
EffectiveSizeDefaulted(arr, size) ==
  IF size = 0 THEN DefaultSize
  ELSE IF arr # NoArray /\ size < CountOf(arr) THEN CountOf(arr) ELSE size

\* variant: size is not raised to the length of the supplied array
EffectiveSizeUnclamped(arr, size) ==
  IF arr # NoArray THEN size
  ELSE IF size = 0 THEN DefaultSize ELSE size

EffectiveSize(arr, size) ==
  IF arr # NoArray
  THEN IF size < CountOf(arr) THEN CountOf(arr) ELSE size
  ELSE IF size = 0 THEN DefaultSize ELSE size

\* new FunctionMap[arraySize + 1], filled by the constructor's loop
InitialArray(arr, size) ==
  [i \in 0..EffectiveSize(arr, size) |->
     [functionCode |-> IF i < CountOf(arr) THEN arr[i + 1].functionCode ELSE 0,
      handler |-> IF i < CountOf(arr) THEN arr[i + 1].handler ELSE NULL]]

Init ==
  \E arr \in ArgArrays \cup {NoArray}, size \in 0..MaxSize :
    /\ arraySize = EffectiveSize(arr, size)
    /\ functionMapArray = InitialArray(arr, size)
    /\ argGiven = (arr # NoArray)
    /\ argArray = [i \in 1..CountOf(arr) |-> arr[i]]
    /\ argSize = size
    /\ fmaSize = CountOf(arr)
    /\ adds = 0
    /\ last = [op |-> IF arr = NoArray THEN "new" ELSE "newFromArray",
               functionCode |-> 0, value |-> 0,
               handler |-> NULL, retval |-> FALSE, slot |-> -1,
               called |-> NoCall, reads |-> 0, outOfBounds |-> FALSE]

\* variant: the loop stops one slot early (i + 1 < arraySize)
RECURSIVE FindSlotSkipLast(_, _, _, _)
FindSlotSkipLast(map, size, i, slot) ==
  IF i + 1 < size
  THEN FindSlotSkipLast(map, size, i + 1, IF map[i].handler = NULL THEN i ELSE slot)
  ELSE slot

\* variant: the loop breaks at the first empty slot
RECURSIVE FindSlotFirstFit(_, _, _, _)
FindSlotFirstFit(map, size, i, slot) ==
  IF i < size /\ slot = -1
  THEN FindSlotFirstFit(map, size, i + 1, IF map[i].handler = NULL THEN i ELSE slot)
  ELSE slot

\* ---- addHandler -----------------------------------------------------------
\* for (i = 0; i < arraySize; i++) if (functionMapArray[i].handler == 0) slot = i;
RECURSIVE FindSlot(_, _, _, _)
FindSlot(map, size, i, slot) ==
  IF i < size
  THEN FindSlot(map, size, i + 1, IF map[i].handler = NULL THEN i ELSE slot)
  ELSE slot

\* variant: the loop also visits the terminator slot (i <= arraySize)
AddSlotInclusive(map, size) == FindSlot(map, size + 1, 0, -1)

AddSlot(map, size) == FindSlot(map, size, 0, -1)

\* variant: only the handler is stored, the slot keeps its old code
StoreHandlerOnly(map, slot, functionCode, handler) ==
  IF slot # -1
  THEN [map EXCEPT ![slot].handler = handler]
  ELSE map

StoreHandler(map, slot, functionCode, handler) ==
  IF slot # -1
  THEN [map EXCEPT ![slot] = [functionCode |-> functionCode, handler |-> handler]]
  ELSE map

addHandler(functionCode, handler) ==
  /\ adds < MaxAdds
  /\ LET slot == AddSlot(functionMapArray, arraySize) IN
       /\ functionMapArray' = StoreHandler(functionMapArray, slot, functionCode, handler)
       /\ last' = [op |-> "addHandler", functionCode |-> functionCode, value |-> 0,
                   handler |-> handler, retval |-> (slot # -1), slot |-> slot,
                   called |-> NoCall, reads |-> 0, outOfBounds |-> FALSE]
  /\ adds' = adds + 1
  /\ UNCHANGED <<arraySize, argGiven, argArray, argSize, fmaSize>>

\* ---- the scan of validateAddress and processValue ---------------------------
\* for (i = 0; functionMapArray[i].handler != 0; i++)
\*   if (functionMapArray[i].functionCode == functionCode) { ...; break; }
\* match: the index the loop breaks at, or -1; reads: slots read;
\* outOfBounds: the loop read an index beyond the allocated arraySize + 1.
\* variant: the loop runs over all real slots and skips the empty ones
RECURSIVE ValidateScanAll(_, _, _, _)
ValidateScanAll(map, size, functionCode, i) ==
  IF i >= size THEN [match |-> -1, reads |-> i, outOfBounds |-> FALSE]
  ELSE IF map[i].handler # NULL /\ map[i].functionCode = functionCode
       THEN [match |-> i, reads |-> i + 1, outOfBounds |-> FALSE]
       ELSE ValidateScanAll(map, size, functionCode, i + 1)

RECURSIVE ValidateScan(_, _, _, _)
ValidateScan(map, size, functionCode, i) ==
  IF i > size THEN [match |-> -1, reads |-> i + 1, outOfBounds |-> TRUE]
  ELSE IF map[i].handler = NULL THEN [match |-> -1, reads |-> i + 1, outOfBounds |-> FALSE]
  ELSE IF map[i].functionCode = functionCode
       THEN [match |-> i, reads |-> i + 1, outOfBounds |-> FALSE]
       ELSE ValidateScan(map, size, functionCode, i + 1)

RECURSIVE ProcessScan(_, _, _, _)
ProcessScan(map, size, functionCode, i) ==
  IF i > size THEN [match |-> -1, reads |-> i + 1, outOfBounds |-> TRUE]
  ELSE IF map[i].handler = NULL THEN [match |-> -1, reads |-> i + 1, outOfBounds |-> FALSE]
  ELSE IF map[i].functionCode = functionCode
       THEN [match |-> i, reads |-> i + 1, outOfBounds |-> FALSE]
       ELSE ProcessScan(map, size, functionCode, i + 1)

\* ---- validateAddress ------------------------------------------------------
validateAddress(functionCode) ==
  /\ LET s == ValidateScan(functionMapArray, arraySize, functionCode, 0) IN
       \E r \in (IF s.outOfBounds THEN BOOLEAN ELSE {s.match # -1}) :
         last' = [op |-> "validateAddress", functionCode |-> functionCode,
                  value |-> 0, handler |-> NULL, retval |-> r, slot |-> s.match,
                  called |-> NoCall, reads |-> s.reads, outOfBounds |-> s.outOfBounds]
  /\ UNCHANGED <<arraySize, functionMapArray, argGiven, argArray, argSize,
                 fmaSize, adds>>

\* ---- processValue ---------------------------------------------------------
\* the handler takes unsigned char arguments: the code is truncated
HandlerCall(map, slot, functionCode, value) ==
  IF slot # -1
  THEN [h |-> map[slot].handler, functionCode |-> functionCode % UCharRange,
        value |-> value]
  ELSE NoCall

processValue(functionCode, value) ==
  /\ LET s == ProcessScan(functionMapArray, arraySize, functionCode, 0)
         c == HandlerCall(functionMapArray, s.match, functionCode, value)
     IN
       \E r \in (IF s.outOfBounds THEN BOOLEAN
                 ELSE {IF s.match # -1
                       THEN HandlerResult(c.h, c.functionCode, c.value)
                       ELSE FALSE}) :
         last' = [op |-> "processValue", functionCode |-> functionCode,
                  value |-> value, handler |-> NULL, retval |-> r, slot |-> s.match,
                  called |-> c, reads |-> s.reads, outOfBounds |-> s.outOfBounds]
  /\ UNCHANGED <<arraySize, functionMapArray, argGiven, argArray, argSize,
                 fmaSize, adds>>

\* addHandler is called with non-null handlers only (the caller's obligation)
Next ==
  \/ \E c \in UCharCodes, h \in Handlers : addHandler(c, h)
  \/ \E c \in UIntCodes : validateAddress(c)
  \/ \E c \in UIntCodes, v \in Values : processValue(c, v)

Spec == Init /\ [][Next]_vars

\* ---- vocabulary of the properties -----------------------------------------
RealSlots == 0..(arraySize - 1)
Occupied(i) == functionMapArray[i].handler # NULL
SlotsHolding(c) ==
  {i \in DOMAIN functionMapArray : Occupied(i) /\ functionMapArray[i].functionCode = c}
HasEmptySlot == \E i \in RealSlots : ~Occupied(i)
InitialCodes == {argArray[i].functionCode : i \in 1..Len(argArray)}
IsLookup == last.op \in {"validateAddress", "processValue"}
MinOf(S) == CHOOSE x \in S : \A y \in S : x <= y
MaxOf(S) == CHOOSE x \in S : \A y \in S : x >= y

\* C1: validateAddress(c) returns true if and only if some slot holds a
\* non-null handler together with function code c.
C1_ValidateIffMapped ==
  last.op = "validateAddress" =>
    (last.retval <=> SlotsHolding(last.functionCode) # {})

\* C2: on a table built from an array of k entries with size s > k, once
\* addHandler has stored a code c that the initial array lacks,
\* processValue(c, v) invokes the stored handler with (c, v) and returns its
\* result.
C2_AddedHandlerIsDispatched ==
  ( /\ last.op = "processValue"
    /\ argGiven /\ argSize > fmaSize
    /\ last.functionCode \notin InitialCodes
    /\ SlotsHolding(last.functionCode) # {} )
  => /\ \E i \in SlotsHolding(last.functionCode) :
          last.called = [h |-> functionMapArray[i].handler,
                         functionCode |-> last.functionCode,
                         value |-> last.value]
     /\ last.retval = HandlerResult(last.called.h, last.functionCode, last.value)

\* C3: addHandler(code, h) returns true exactly when some real slot has a null
\* handler before the call, and then exactly one slot changes, becoming
\* (code, h); on a full table it returns false and no slot changes.
C3_AddHandlerContract ==
  [][ (last'.op = "addHandler" /\ adds' = adds + 1) =>
        LET free == {i \in RealSlots : ~Occupied(i)} IN
          /\ last'.retval <=> (free # {})
          /\ (free # {}) =>
               \E i \in free :
                 /\ functionMapArray'[i] =
                      [functionCode |-> last'.functionCode, handler |-> last'.handler]
                 /\ \A j \in DOMAIN functionMapArray \ {i} :
                      functionMapArray'[j] = functionMapArray[j]
          /\ (free = {}) => functionMapArray' = functionMapArray
          /\ DOMAIN functionMapArray' = DOMAIN functionMapArray ]_vars

\* a table that addHandler filled is refused a further entry
C3_Witness ==
  /\ last.op = "addHandler" /\ ~last.retval
  /\ fmaSize < arraySize /\ arraySize >= 2
  /\ \A i \in RealSlots : Occupied(i)

\* C4: a table constructed from an array alone (size = 0) is exactly full:
\* every addHandler call returns false and leaves the table as constructed.
C4_ArrayOnlyIsFull ==
  (argGiven /\ argSize = 0) =>
    /\ (last.op = "addHandler" => ~last.retval)
    /\ functionMapArray =
         [i \in 0..Len(argArray) |->
            IF i < Len(argArray) THEN argArray[i + 1]
            ELSE [functionCode |-> 0, handler |-> NULL]]

C4_Witness ==
  /\ argGiven /\ argSize = 0 /\ Len(argArray) >= 1
  /\ last.op = "addHandler" /\ adds >= 2

\* C5: arraySize is max(size, k) when an array with k live entries is
\* supplied, size if nonzero and else 10 when none is, and no operation
\* changes it.
C5_Capacity ==
  arraySize =
    IF argGiven
    THEN MaxOf({argSize, Len(argArray)})
    ELSE IF argSize # 0 THEN argSize ELSE 10

\* an array of two entries with size 1, after calls of every operation
C5_Witness ==
  /\ argGiven /\ Len(argArray) = 2 /\ argSize = 1
  /\ adds >= 1 /\ IsLookup

\* C6: when two or more occupied slots hold code c, validateAddress(c)
\* returns true and processValue(c, v) invokes the handler of the
\* lowest-indexed of them and returns its result.
C6_LowestDuplicateWins ==
  (IsLookup /\ Cardinality(SlotsHolding(last.functionCode)) >= 2) =>
    LET first == MinOf(SlotsHolding(last.functionCode)) IN
      /\ last.op = "validateAddress" => last.retval
      /\ last.op = "processValue" =>
           /\ last.called.h = functionMapArray[first].handler
           /\ last.retval = HandlerResult(functionMapArray[first].handler,
                                          last.called.functionCode, last.value)

\* C7: the slot at index arraySize always holds (0, null) and is never
\* written, so a lookup reads at most the slots 0..arraySize, never beyond
\* them, and returns false for a code no slot holds.
C7_TerminatorBoundsScan ==
  /\ DOMAIN functionMapArray = 0..arraySize
  /\ functionMapArray[arraySize] = [functionCode |-> 0, handler |-> NULL]
  /\ last.op = "addHandler" => last.slot # arraySize
  /\ IsLookup =>
       /\ ~last.outOfBounds
       /\ last.reads <= arraySize + 1
       /\ (SlotsHolding(last.functionCode) = {}) => ~last.retval

\* every real slot was filled by addHandler and an unknown code is looked up
C7_Witness ==
  /\ fmaSize = 0 /\ arraySize >= 2
  /\ \A i \in RealSlots : Occupied(i)
  /\ IsLookup /\ SlotsHolding(last.functionCode) = {}
  /\ last.reads = arraySize + 1

C9_LastEmptySlot ==
  [][ (last'.op = "addHandler" /\ adds' = adds + 1) =>
        LET free == {i \in RealSlots : ~Occupied(i)} IN
          /\ (free # {}) =>
               /\ last'.slot = MaxOf(free)
               /\ functionMapArray' =
                    [functionMapArray EXCEPT ![MaxOf(free)] =
                       [functionCode |-> last'.functionCode,
                        handler |-> last'.handler]]
          /\ (arraySize = 5 /\ fmaSize = 2 /\ adds' <= 3) =>
               last'.slot = 5 - adds' ]_vars

C9_Witness ==
  /\ arraySize = 5 /\ fmaSize = 2 /\ adds = 3
  /\ last.op = "addHandler" /\ last.slot = 2
  /\ \A i \in RealSlots : Occupied(i)

\* C10: on a table of capacity c built from k < c entries, while a real slot
\* is empty a lookup covers only the k initial entries (a code held only by
\* added entries yields false and no handler call); the added entries become
\* reachable together when the (c - k)-th addHandler fills the last empty
\* slot.
ScanLength == MinOf({i \in DOMAIN functionMapArray : ~Occupied(i)})

====
